---- MODULE Spec2Model ----
(***************************************************************************)
(* NodeIterator (components/script/dom/nodeiterator.rs): a filtered,       *)
(* bidirectional cursor over a DOM tree.  The cursor is the pair           *)
(* (reference_node, pointer_before_reference_node); next_node()/prev_node()*)
(* run the "traverse" algorithm over following()/preceding() and           *)
(* accept_node().                                                          *)
(***************************************************************************)
EXTENDS Integers, Sequences, FiniteSets, TLC

\* ---------------------------------------------------------------- bounds
\* Number of nodes of the document tree.
MaxNodes == 4
\* Number of calls recorded in the call trace of SpecTrace.
MaxCalls == 6

Nodes == 1..MaxNodes
\* Option<Node>::None
NoNode == 0
\* The outcome of unwrap() on a None: the task fails.
Fault == -2

\* ------------------------------------------------------------- constants
\* NodeFilterConstants, as nodeiterator.rs uses them.
FILTER_ACCEPT == 1
FILTER_SKIP == 3
\* A JavaScript callback that throws instead of returning a u16.
JSException == -1

\* nodeType values of the nodes in the tree: only an element (1) has
\* children, a leaf is an element or a text node (3).
ParentKinds == {1}
LeafKinds == {1, 3}
\* whatToShow values: SHOW_ELEMENT, SHOW_TEXT, and every one of the twelve
\* node kinds (the low twelve bits of SHOW_ALL, the only ones a nodeType
\* can select).
Masks == {1, 4, 4095}
\* u16 values a filter returns: FILTER_ACCEPT, FILTER_REJECT (2), FILTER_SKIP
\* and a value that is none of them.
Verdicts == {FILTER_ACCEPT, 2, FILTER_SKIP, 0}

VARIABLES
    parent,                          \* Node -> parent node or NoNode
    children,                        \* Node -> sequence of child nodes
    kind,                            \* Node -> nodeType
    root_node,                       \* NodeIterator.root_node
    reference_node,                  \* NodeIterator.reference_node
    pointer_before_reference_node,   \* NodeIterator.pointer_before_reference_node
    what_to_show,                    \* NodeIterator.what_to_show
    filter,                          \* NodeIterator.filter
    last,                            \* the last call and what it did
    panicked,                        \* the task has hit fail!/unreachable!
    tracing,                         \* whether calls are recorded in trace
    trace                            \* the calls made since construction

vars == <<parent, children, kind, root_node, reference_node,
          pointer_before_reference_node, what_to_show, filter, last,
          panicked, tracing, trace>>

tree == <<parent, children, kind>>
config == <<root_node, what_to_show, filter>>
cursor == <<reference_node, pointer_before_reference_node>>

\* ------------------------------------------------------- tree navigation
parent_node(n) == parent[n]

first_child(n) == IF children[n] = <<>> THEN NoNode ELSE Head(children[n])

last_child(n) ==
    IF children[n] = <<>> THEN NoNode ELSE children[n][Len(children[n])]

IndexIn(s, n) == CHOOSE i \in 1..Len(s) : s[i] = n

next_sibling(n) ==
    IF parent[n] = NoNode THEN NoNode
    ELSE LET s == children[parent[n]]
             i == IndexIn(s, n)
         IN  IF i < Len(s) THEN s[i + 1] ELSE NoNode

prev_sibling(n) ==
    IF parent[n] = NoNode THEN NoNode
    ELSE LET s == children[parent[n]]
             i == IndexIn(s, n)
         IN  IF i > 1 THEN s[i - 1] ELSE NoNode

\* ------------------------------------------------------------ the cursor
is_root_node(node) == node = root_node

RECURSIVE ClimbUnwrapsParent(_)
\* The climb with candidate.parent_node().unwrap().
ClimbUnwrapsParent(candidate) ==
    IF ~is_root_node(candidate) /\ next_sibling(candidate) = NoNode
    THEN IF parent_node(candidate) = NoNode
         THEN Fault
         ELSE ClimbUnwrapsParent(parent_node(candidate))
    ELSE candidate

RECURSIVE Climb(_)
\* The while loop of following(): the ancestor the climb stops at, or NoNode
\* when a parent is missing.
Climb(candidate) ==
    IF ~is_root_node(candidate) /\ next_sibling(candidate) = NoNode
    THEN IF parent_node(candidate) = NoNode
         THEN NoNode
         ELSE Climb(parent_node(candidate))
    ELSE candidate

\* following() that gives up instead of climbing.
followingNoClimb(node) ==
    IF first_child(node) # NoNode THEN first_child(node)
    ELSE next_sibling(node)

following(node) ==
    IF first_child(node) # NoNode THEN first_child(node)
    ELSE IF next_sibling(node) # NoNode THEN next_sibling(node)
    ELSE LET candidate == Climb(node)
         IN  IF candidate \in {NoNode, Fault} THEN candidate
             ELSE IF is_root_node(candidate) THEN NoNode
             ELSE next_sibling(candidate)

RECURSIVE Deepest(_)
\* The while loop of preceding(): descend through last children;
\* last_child().unwrap() fails on a node with a first but no last child.
Deepest(node) ==
    IF first_child(node) = NoNode THEN node
    ELSE IF last_child(node) = NoNode THEN Fault
    ELSE Deepest(last_child(node))

\* preceding() that stops at the previous sibling.
precedingNoDescend(node) ==
    IF is_root_node(node) THEN NoNode
    ELSE IF prev_sibling(node) # NoNode THEN prev_sibling(node)
    ELSE parent_node(node)

\* preceding() without the root boundary.
precedingPastRoot(node) ==
    IF prev_sibling(node) # NoNode THEN Deepest(prev_sibling(node))
    ELSE parent_node(node)

preceding(node) ==
    IF is_root_node(node) THEN NoNode
    ELSE IF prev_sibling(node) # NoNode THEN Deepest(prev_sibling(node))
    ELSE parent_node(node)

\* Bit n of a u32.
Bit(w, n) == (w \div (2 ^ n)) % 2

MaskBitClear(node) == Bit(what_to_show, kind[node] - 1) = 0

\* accept_node() testing for a null filter before the mask.
accept_nodeFilterFirst(node) ==
    IF filter.tag = "FilterNone"
    THEN [err |-> FALSE, val |-> FILTER_ACCEPT, called |-> FALSE]
    ELSE IF MaskBitClear(node)
    THEN [err |-> FALSE, val |-> FILTER_SKIP, called |-> FALSE]
    ELSE IF filter.tag = "FilterNative"
    THEN [err |-> FALSE, val |-> filter.f[node], called |-> TRUE]
    ELSE IF filter.f[node] = JSException
    THEN [err |-> TRUE, val |-> 0, called |-> TRUE]
    ELSE [err |-> FALSE, val |-> filter.f[node], called |-> TRUE]

\* accept_node() invoking the user filter before it tests the mask.
accept_nodeInvokeFirst(node) ==
    IF filter.tag = "FilterNone"
    THEN [err |-> FALSE,
          val |-> IF MaskBitClear(node) THEN FILTER_SKIP ELSE FILTER_ACCEPT,
          called |-> FALSE]
    ELSE IF filter.tag = "FilterJS" /\ filter.f[node] = JSException
    THEN [err |-> TRUE, val |-> 0, called |-> TRUE]
    ELSE [err |-> FALSE,
          val |-> IF MaskBitClear(node) THEN FILTER_SKIP ELSE filter.f[node],
          called |-> TRUE]

\* Fallible<u16>, with `called`: whether the user filter was invoked.
accept_node(node) ==
    IF MaskBitClear(node)
    THEN [err |-> FALSE, val |-> FILTER_SKIP, called |-> FALSE]
    ELSE IF filter.tag = "FilterNone"
    THEN [err |-> FALSE, val |-> FILTER_ACCEPT, called |-> FALSE]
    ELSE IF filter.tag = "FilterNative"
    THEN [err |-> FALSE, val |-> filter.f[node], called |-> TRUE]
    ELSE IF filter.f[node] = JSException
    THEN [err |-> TRUE, val |-> 0, called |-> TRUE]
    ELSE [err |-> FALSE, val |-> filter.f[node], called |-> TRUE]

\* The loop turn moving off the node whatever the before-flag says.
AdvanceAlwaysMoves(direction, node, before_node) ==
    IF direction = "Next"
    THEN [node |-> following(node), before_node |-> FALSE]
    ELSE [node |-> preceding(node), before_node |-> TRUE]

\* The loop turn setting the before-flag again each time it moves forward.
AdvanceTogglesFlag(direction, node, before_node) ==
    IF direction = "Next"
    THEN IF before_node
         THEN [node |-> node, before_node |-> FALSE]
         ELSE [node |-> following(node), before_node |-> TRUE]
    ELSE IF before_node
         THEN [node |-> preceding(node), before_node |-> before_node]
         ELSE [node |-> node, before_node |-> TRUE]

\* One turn of the loop of traverse(): the candidate node and the local
\* before-flag, before the candidate is filtered.
Advance(direction, node, before_node) ==
    IF direction = "Next"
    THEN IF before_node
         THEN [node |-> node, before_node |-> FALSE]
         ELSE [node |-> following(node), before_node |-> before_node]
    ELSE IF before_node
         THEN [node |-> preceding(node), before_node |-> before_node]
         ELSE [node |-> node, before_node |-> TRUE]

\* Running out of nodes handled like `break`: the cells are set from the
\* locals.
ReturnNoneWrites(node, before_node, classified, invoked) ==
    [res |-> "None", node |-> NoNode,
     reference_node |-> node,
     pointer_before_reference_node |-> before_node,
     classified |-> classified, invoked |-> invoked]

\* Running out of nodes "undoing" the flip of the flag in the cell.
ReturnNoneUndoesFlip(node, before_node, classified, invoked) ==
    [res |-> "None", node |-> NoNode,
     reference_node |-> reference_node,
     pointer_before_reference_node |-> ~before_node,
     classified |-> classified, invoked |-> invoked]

\* `None => return Ok(None)`: the cells are not written.
ReturnNone(node, before_node, classified, invoked) ==
    [res |-> "None", node |-> NoNode,
     reference_node |-> reference_node,
     pointer_before_reference_node |-> pointer_before_reference_node,
     classified |-> classified, invoked |-> invoked]

\* A filter failure taken for the end of the traversal.
ReturnErrAsNone(node, before_node, classified, invoked) ==
    [res |-> "None", node |-> NoNode,
     reference_node |-> reference_node,
     pointer_before_reference_node |-> pointer_before_reference_node,
     classified |-> classified, invoked |-> invoked]

\* `Err(e) => return Err(e)`: the cells are not written.
ReturnErr(node, before_node, classified, invoked) ==
    [res |-> "Err", node |-> NoNode,
     reference_node |-> reference_node,
     pointer_before_reference_node |-> pointer_before_reference_node,
     classified |-> classified, invoked |-> invoked]

\* The flag cell left unwritten on success.
ReturnSomeKeepsFlag(node, before_node, classified, invoked) ==
    [res |-> "Some", node |-> node,
     reference_node |-> node,
     pointer_before_reference_node |-> pointer_before_reference_node,
     classified |-> classified, invoked |-> invoked]

\* After `break`: both cells are set from the locals, Ok(Some(node)).
ReturnSome(node, before_node, classified, invoked) ==
    [res |-> "Some", node |-> node,
     reference_node |-> node,
     pointer_before_reference_node |-> before_node,
     classified |-> classified, invoked |-> invoked]

\* An unwrap() failed inside following()/preceding(): the task unwinds, the
\* cells are not written.
ReturnPanic(node, before_node, classified, invoked) ==
    [res |-> "Panic", node |-> NoNode,
     reference_node |-> reference_node,
     pointer_before_reference_node |-> pointer_before_reference_node,
     classified |-> classified, invoked |-> invoked]

RECURSIVE TraverseLoopRejectPrunes(_, _, _, _, _)
\* The loop with FILTER_REJECT (2) passing over the subtree of the rejected
\* node, as a TreeWalker does.
TraverseLoopRejectPrunes(direction, node, before_node, classified, invoked) ==
    LET a == Advance(direction, node, before_node)
    IN  IF a.node = Fault
        THEN ReturnPanic(node, a.before_node, classified, invoked)
        ELSE IF a.node = NoNode
        THEN ReturnNone(node, a.before_node, classified, invoked)
        ELSE LET r == accept_node(a.node)
                 c == Append(classified, a.node)
                 i == IF r.called THEN Append(invoked, a.node) ELSE invoked
             IN  IF r.err
                 THEN ReturnErr(a.node, a.before_node, c, i)
                 ELSE IF r.val = FILTER_ACCEPT
                 THEN ReturnSome(a.node, a.before_node, c, i)
                 ELSE TraverseLoopRejectPrunes(
                          direction,
                          IF r.val = 2 /\ direction = "Next"
                          THEN Deepest(a.node) ELSE a.node,
                          a.before_node, c, i)

RECURSIVE TraverseLoop(_, _, _, _, _)
\* The loop of traverse() from the locals (node, before_node); classified
\* and invoked collect the nodes handed to accept_node and to the user
\* filter so far.  The result carries the cursor fields as the call leaves
\* them.
TraverseLoop(direction, node, before_node, classified, invoked) ==
    LET a == Advance(direction, node, before_node)
    IN  IF a.node = Fault
        THEN ReturnPanic(node, a.before_node, classified, invoked)
        ELSE IF a.node = NoNode
        THEN ReturnNone(node, a.before_node, classified, invoked)
        ELSE LET r == accept_node(a.node)
                 c == Append(classified, a.node)
                 i == IF r.called THEN Append(invoked, a.node) ELSE invoked
             IN  IF r.err
                 THEN ReturnErr(a.node, a.before_node, c, i)
                 ELSE IF r.val = FILTER_ACCEPT
                 THEN ReturnSome(a.node, a.before_node, c, i)
                 ELSE TraverseLoop(direction, a.node, a.before_node, c, i)

traverse(direction) ==
    TraverseLoop(direction, reference_node, pointer_before_reference_node,
                 <<>>, <<>>)

RECURSIVE TraverseLoopReentrant(_, _, _, _, _, _)
\* The loop of traverse() under a callback that, when it is handed the node
\* filter.at, first calls next_node() or prev_node() (filter.reenter) on the
\* same NodeIterator and then gives its verdict.  The nested call runs while
\* the outer call holds its locals; cells is the pair of Cells as the calls
\* made so far have left it.  The callback does not re-enter from inside the
\* nested call.
TraverseLoopReentrant(direction, node, before_node, cells, classified, invoked) ==
    LET a == Advance(direction, node, before_node)
    IN  IF a.node = Fault
        THEN [res |-> "Panic", node |-> NoNode,
              reference_node |-> cells[1],
              pointer_before_reference_node |-> cells[2],
              classified |-> classified, invoked |-> invoked]
        ELSE IF a.node = NoNode
        THEN [res |-> "None", node |-> NoNode,
              reference_node |-> cells[1],
              pointer_before_reference_node |-> cells[2],
              classified |-> classified, invoked |-> invoked]
        ELSE LET r == accept_node(a.node)
                 c == Append(classified, a.node)
                 i == IF r.called THEN Append(invoked, a.node) ELSE invoked
                 nested == TraverseLoop(filter.reenter, cells[1], cells[2],
                                        <<>>, <<>>)
                 cells2 == IF r.called /\ a.node = filter.at
                              /\ nested.res = "Some"
                           THEN <<nested.reference_node,
                                  nested.pointer_before_reference_node>>
                           ELSE cells
             IN  IF r.err
                 THEN [res |-> "Err", node |-> NoNode,
                       reference_node |-> cells2[1],
                       pointer_before_reference_node |-> cells2[2],
                       classified |-> c, invoked |-> i]
                 ELSE IF r.val = FILTER_ACCEPT
                 THEN [res |-> "Some", node |-> a.node,
                       reference_node |-> a.node,
                       pointer_before_reference_node |-> a.before_node,
                       classified |-> c, invoked |-> i]
                 ELSE TraverseLoopReentrant(direction, a.node, a.before_node,
                                            cells2, c, i)

traverseReentrant(direction) ==
    TraverseLoopReentrant(direction, reference_node,
                          pointer_before_reference_node,
                          <<reference_node, pointer_before_reference_node>>,
                          <<>>, <<>>)

\* ---------------------------------------------------------- construction
RECURSIVE AncestorsOrSelf(_, _)
AncestorsOrSelf(p, n) ==
    IF n = NoNode THEN {} ELSE {n} \cup AncestorsOrSelf(p, p[n])

\* Parent maps of the ordered trees over Nodes, nodes numbered in document
\* order: node 1 is the document's root, and each later node hangs under
\* the node before it or under one of that node's ancestors.
ParentMaps ==
    {p \in [Nodes -> Nodes \cup {NoNode}] :
        /\ p[1] = NoNode
        /\ \A n \in Nodes \ {1} : p[n] \in AncestorsOrSelf(p, n - 1)}

RECURSIVE SortedSeq(_)
SortedSeq(S) ==
    IF S = {} THEN <<>>
    ELSE LET m == CHOOSE x \in S : \A y \in S : x <= y
         IN  <<m>> \o SortedSeq(S \ {m})

ChildrenOf(p) == [n \in Nodes |-> SortedSeq({m \in Nodes : p[m] = n})]

KindMaps(p) ==
    {k \in [Nodes -> ParentKinds \cup LeafKinds] :
        \A n \in Nodes :
            k[n] \in (IF \E m \in Nodes : p[m] = n
                      THEN ParentKinds ELSE LeafKinds)}

\* A user filter that accepts every node but one.
PointFilter(t, v) == [n \in Nodes |-> IF n = t THEN v ELSE FILTER_ACCEPT]

Filters ==
    {[tag |-> "FilterNone", f |-> <<>>]}
    \cup {[tag |-> "FilterNative", f |-> PointFilter(t, v)] :
            t \in Nodes, v \in Verdicts \ {FILTER_ACCEPT}}
    \cup {[tag |-> "FilterJS", f |-> PointFilter(t, v)] :
            t \in Nodes, v \in (Verdicts \ {FILTER_ACCEPT}) \cup {JSException}}

\* last: the call (op), its result (res, node), the cursor it started from
\* (ref0, before0), the nodes it classified and those it invoked the user
\* filter on, the value it returned, and the call before it (op0, res0).
NoCall == [op |-> "new", res |-> "None", node |-> NoNode, value |-> NoNode,
           ref0 |-> NoNode, before0 |-> TRUE, op0 |-> "new", res0 |-> "None",
           classified |-> <<>>, invoked |-> <<>>]

\* The document tree, and NodeIterator::new_inherited(root_node,
\* what_to_show, filter).
Construct(filters) ==
    /\ \E p \in ParentMaps :
        /\ parent = p
        /\ children = ChildrenOf(p)
        /\ kind \in KindMaps(p)
    /\ root_node \in Nodes
    /\ reference_node = root_node
    /\ pointer_before_reference_node = TRUE
    /\ what_to_show \in Masks
    /\ filter \in filters
    /\ last = NoCall
    /\ panicked = FALSE
    /\ trace = <<>>

Init == Construct(Filters) /\ tracing = FALSE

\* --------------------------------------------------------------- actions
CanCall == ~panicked /\ (tracing => Len(trace) < MaxCalls)

Record(op, r) ==
    /\ last' = [op |-> op, res |-> r.res, node |-> r.node,
                value |-> IF "value" \in DOMAIN r THEN r.value ELSE r.node,
                ref0 |-> reference_node,
                before0 |-> pointer_before_reference_node,
                op0 |-> last.op, res0 |-> last.res,
                classified |-> r.classified, invoked |-> r.invoked]
    /\ trace' = IF tracing
                THEN Append(trace, [op |-> op, res |-> r.res, node |-> r.node])
                ELSE trace

\* next_node() / NextNode()
NextNode ==
    /\ CanCall
    /\ LET r == traverse("Next")
       IN  /\ reference_node' = r.reference_node
           /\ pointer_before_reference_node' = r.pointer_before_reference_node
           /\ Record("next_node", r)
           /\ panicked' = (r.res = "Panic")
    /\ UNCHANGED <<tree, config, tracing>>

\* prev_node() / PreviousNode()
PreviousNode ==
    /\ CanCall
    /\ LET r == traverse("Previous")
       IN  /\ reference_node' = r.reference_node
           /\ pointer_before_reference_node' = r.pointer_before_reference_node
           /\ Record("prev_node", r)
           /\ panicked' = (r.res = "Panic")
    /\ UNCHANGED <<tree, config, tracing>>

\* Iterator::next(): next_node(), with unreachable!() on Err.
IteratorNext ==
    /\ CanCall
    /\ LET r == traverse("Next")
       IN  /\ reference_node' = r.reference_node
           /\ pointer_before_reference_node' = r.pointer_before_reference_node
           /\ Record("iter_next",
                     IF r.res = "Err" THEN [r EXCEPT !.res = "Panic"] ELSE r)
           /\ panicked' = (r.res \in {"Err", "Panic"})
    /\ UNCHANGED <<tree, config, tracing>>

\* The result record of a call that does not traverse.
Returns(value) ==
    [res |-> "None", node |-> NoNode, value |-> value,
     classified |-> <<>>, invoked |-> <<>>]

\* A detach() that rewinds the cursor to its root.
DetachRewinds ==
    /\ CanCall
    /\ reference_node' = root_node
    /\ pointer_before_reference_node' = TRUE
    /\ Record("detach", Returns(NoNode))
    /\ UNCHANGED <<tree, config, panicked, tracing>>

\* Detach(): "The detach() method must do nothing."
Detach ==
    /\ CanCall
    /\ Record("detach", Returns(NoNode))
    /\ UNCHANGED <<tree, config, cursor, panicked, tracing>>

\* Root()
Root ==
    /\ CanCall
    /\ Record("Root", Returns(root_node))
    /\ UNCHANGED <<tree, config, cursor, panicked, tracing>>

\* WhatToShow()
WhatToShow ==
    /\ CanCall
    /\ Record("WhatToShow", Returns(what_to_show))
    /\ UNCHANGED <<tree, config, cursor, panicked, tracing>>

\* GetFilter(): None, Some(nf), or fail!() for a native filter.
GetFilter ==
    /\ CanCall
    /\ Record("GetFilter",
              IF filter.tag = "FilterNone" THEN Returns(NoNode)
              ELSE IF filter.tag = "FilterJS" THEN Returns(filter.f)
              ELSE [Returns(NoNode) EXCEPT !.res = "Panic"])
    /\ panicked' = (filter.tag = "FilterNative")
    /\ UNCHANGED <<tree, config, cursor, tracing>>

\* A GetReferenceNode() that hands out the root.
GetReferenceNodeReturnsRoot ==
    /\ CanCall
    /\ Record("GetReferenceNode", Returns(root_node))
    /\ UNCHANGED <<tree, config, cursor, panicked, tracing>>

\* GetReferenceNode()
GetReferenceNode ==
    /\ CanCall
    /\ Record("GetReferenceNode", Returns(reference_node))
    /\ UNCHANGED <<tree, config, cursor, panicked, tracing>>

\* PointerBeforeReferenceNode()
PointerBeforeReferenceNode ==
    /\ CanCall
    /\ Record("PointerBeforeReferenceNode",
              Returns(pointer_before_reference_node))
    /\ UNCHANGED <<tree, config, cursor, panicked, tracing>>

\* Another actor takes the reference node, or an ancestor of it, out of
\* its parent: the removed node has no parent and no siblings any more and
\* keeps its own subtree.  The cursor is not told (the "removing steps" are
\* not implemented).
RemoveSubtree ==
    /\ CanCall
    /\ \E n \in AncestorsOrSelf(parent, reference_node) :
          /\ parent[n] # NoNode
          /\ parent' = [parent EXCEPT ![n] = NoNode]
          /\ children' = [children EXCEPT
                             ![parent[n]] = SelectSeq(@, LAMBDA m : m # n)]
          /\ Record("remove", Returns(n))
    /\ UNCHANGED <<kind, config, cursor, panicked, tracing>>

\* next_node() with a callback that re-enters the cursor.
ReentrantNextNode ==
    /\ CanCall
    /\ LET r == traverseReentrant("Next")
       IN  /\ reference_node' = r.reference_node
           /\ pointer_before_reference_node' = r.pointer_before_reference_node
           /\ Record("next_node", r)
           /\ panicked' = (r.res = "Panic")
    /\ UNCHANGED <<tree, config, tracing>>

\* prev_node() with a callback that re-enters the cursor.
ReentrantPreviousNode ==
    /\ CanCall
    /\ LET r == traverseReentrant("Previous")
       IN  /\ reference_node' = r.reference_node
           /\ pointer_before_reference_node' = r.pointer_before_reference_node
           /\ Record("prev_node", r)
           /\ panicked' = (r.res = "Panic")
    /\ UNCHANGED <<tree, config, tracing>>

Next == NextNode \/ PreviousNode \/ IteratorNext

Spec == Init /\ [][Next]_vars

\* A cursor without a user filter, every call recorded.
InitTrace ==
    Construct({[tag |-> "FilterNone", f |-> <<>>]}) /\ tracing = TRUE

SpecTrace == InitTrace /\ [][Next]_vars

\* ---------------------------------------------------------------- claims
StepOps == {"next_node", "prev_node", "iter_next"}
NextOps == {"next_node", "iter_next"}

\* n is root_node or one of its descendants.
InSubtree(n) == root_node \in AncestorsOrSelf(parent, n)

\* Bit (kind(v) - 1) of the type mask is clear.
Hidden(v) == (what_to_show \div (2 ^ (kind[v] - 1))) % 2 = 0

\* The installed user filter fails on v.
Throws(v) == filter.tag = "FilterJS" /\ filter.f[v] = JSException

CursorAsBefore == cursor = <<last.ref0, last.before0>>

\* C1: reference_node and every node a call returns is root_node or a
\* descendant of root_node.
C1_StaysInSubtree ==
    /\ InSubtree(reference_node)
    /\ last.res = "Some" => InSubtree(last.node)

\* C2: a call changes the cursor only when it returns Some(node), and then
\* reference_node is the returned node and the flag is the one the direction
\* leaves; a call that returns None leaves both fields as they were.
C2_CursorWrittenOnlyOnSome ==
    last.op \in StepOps =>
        /\ last.res = "Some" =>
              /\ reference_node = last.node
              /\ pointer_before_reference_node = (last.op = "prev_node")
        /\ last.res = "None" => CursorAsBefore
        /\ ~CursorAsBefore => last.res = "Some"

\* A next_node() that started before its reference node, skipped several
\* nodes and ran out of nodes.
C2_Witness ==
    /\ last.op = "next_node"
    /\ last.res = "None"
    /\ last.before0
    /\ Len(last.classified) >= 2

\* C3: a node the filter fails on is the last node the call classifies, the
\* call ends in an error, and the cursor is as before the call.
C3_FilterFailureAborts ==
    last.op \in StepOps =>
        /\ \A i \in 1..Len(last.classified) :
              (~Hidden(last.classified[i]) /\ Throws(last.classified[i])) =>
                  /\ i = Len(last.classified)
                  /\ last.res \in {"Err", "Panic"}
                  /\ CursorAsBefore
        /\ last.res \in {"Err", "Panic"} =>
              /\ last.classified # <<>>
              /\ Throws(last.classified[Len(last.classified)])

\* A next_node() that skipped a node and then met the failing one, with
\* nodes left beyond it.
C3_Witness ==
    /\ last.op = "next_node"
    /\ last.res = "Err"
    /\ Len(last.classified) >= 2
    /\ following(last.classified[Len(last.classified)]) # NoNode

\* C4: a node whose mask bit is clear is never returned and never becomes
\* reference_node through a step.
C4_MaskedNeverReturned ==
    /\ last.res = "Some" => ~Hidden(last.node)
    /\ (last.op \in StepOps /\ ~CursorAsBefore) => ~Hidden(reference_node)

\* A step from the fresh cursor passes over a masked-out root_node and
\* returns another node, a user filter being installed.
C4_Witness ==
    /\ last.res = "Some"
    /\ last.ref0 = root_node
    /\ last.before0
    /\ Hidden(root_node)
    /\ filter.tag # "FilterNone"
    /\ last.classified # <<>>
    /\ last.classified[1] = root_node

\* C5: the user filter is never invoked on a node whose mask bit is clear,
\* and no step fails on such a node.
C5_FilterNotInvokedOnMasked ==
    /\ \A i \in 1..Len(last.invoked) : ~Hidden(last.invoked[i])
    /\ last.res \in {"Err", "Panic"} =>
          ~Hidden(last.classified[Len(last.classified)])

\* A step classifies a masked-out node the callback would throw on, invokes
\* the callback on another node and returns it.
C5_Witness ==
    /\ last.res = "Some"
    /\ last.invoked # <<>>
    /\ \E i \in 1..Len(last.classified) :
          Hidden(last.classified[i]) /\ Throws(last.classified[i])

\* C6: prev_node() from (root_node, before) returns None, leaves the cursor
\* there and classifies no node.
C6_PreviousBeforeRoot ==
    (last.op = "prev_node" /\ last.ref0 = root_node /\ last.before0) =>
        /\ last.res = "None"
        /\ cursor = <<root_node, TRUE>>
        /\ last.classified = <<>>
        /\ last.invoked = <<>>

\* prev_node() from (root_node, before), reached by stepping back onto a
\* root_node that has a parent and a previous sibling.
C6_Witness ==
    /\ last.op = "prev_node"
    /\ last.ref0 = root_node
    /\ last.before0
    /\ last.op0 = "prev_node"
    /\ last.res0 = "Some"
    /\ prev_sibling(root_node) # NoNode

\* C7: next_node() right after a next_node() that returned None returns None
\* and leaves the cursor as it was; likewise prev_node() after prev_node().
C7_ExhaustionIdempotent ==
    /\ (last.op0 \in NextOps /\ last.res0 = "None" /\ last.op \in NextOps) =>
          (last.res = "None" /\ CursorAsBefore)
    /\ (last.op0 = "prev_node" /\ last.res0 = "None" /\ last.op = "prev_node")
          => (last.res = "None" /\ CursorAsBefore)

\* A second next_node() at the end of the traversal, the cursor resting
\* after an accepted node.
C7_Witness ==
    /\ last.op0 = "next_node"
    /\ last.res0 = "None"
    /\ last.op = "next_node"
    /\ ~last.before0
    /\ ~Hidden(last.ref0)

Ops(tr) == [i \in 1..Len(tr) |-> tr[i].op]
Results(tr) == [i \in 1..Len(tr) |-> tr[i].node]

\* Three next_node() calls that returned nodes, then three prev_node().
ForwardThenBack ==
    /\ Ops(trace) = <<"next_node", "next_node", "next_node",
                      "prev_node", "prev_node", "prev_node">>
    /\ \A i \in 1..3 : trace[i].res = "Some"

\* C8 as stated: after next_node() returned a, b, c from the fresh cursor,
\* three prev_node() return b, a, None and the cursor is (root_node, before).
C8_BackYieldsBANone ==
    ForwardThenBack =>
        /\ Results(SubSeq(trace, 4, 6)) =
              <<trace[2].node, trace[1].node, NoNode>>
        /\ cursor = <<root_node, TRUE>>

\* C8 amended: after next_node() returned a, b, c from the fresh cursor,
\* three prev_node() return c, b, a and the cursor is (a, before).
C8_BackYieldsCBA ==
    ForwardThenBack =>
        /\ Results(SubSeq(trace, 4, 6)) =
              <<trace[3].node, trace[2].node, trace[1].node>>
        /\ cursor = <<trace[1].node, TRUE>>

\* The round trip made, with a masked-out root_node skipped on the way out
\* and never reached on the way back.
C8_Witness ==
    /\ ForwardThenBack
    /\ trace[1].node # root_node
    /\ Len(trace) = 6

\* root_node has the three children A, B, C, all leaves, and every kind is
\* shown (SpecTrace installs no filter).
FlatList ==
    /\ Len(children[root_node]) = 3
    /\ \A i \in 1..3 : children[children[root_node][i]] = <<>>
    /\ what_to_show = 4095
    /\ filter.tag = "FilterNone"

\* C9 as stated: on the flat list four next_node() from the fresh cursor
\* return A, B, C, None and the prev_node() after them returns C.
C9_FlatListABC ==
    (FlatList /\ Ops(trace) = <<"next_node", "next_node", "next_node",
                                "next_node", "prev_node">>) =>
        Results(trace) = children[root_node] \o <<NoNode, children[root_node][3]>>

\* C9 amended: on the flat list five next_node() from the fresh cursor
\* return root_node, A, B, C, None and the prev_node() after them returns C.
C9_FlatListRootABC ==
    (FlatList /\ Ops(trace) = <<"next_node", "next_node", "next_node",
                                "next_node", "next_node", "prev_node">>) =>
        Results(trace) = <<root_node>> \o children[root_node]
                            \o <<NoNode, children[root_node][3]>>

C9_Witness ==
    /\ FlatList
    /\ Ops(trace) = <<"next_node", "next_node", "next_node",
                      "next_node", "next_node", "prev_node">>

\* C10: with an external callback filter no step, Iterator::next() included,
\* ends in a panic.
C10_NoPanic ==
    filter.tag = "FilterJS" => (~panicked /\ last.res # "Panic")

\* One filter of each variant: none, a native predicate that skips node 2,
\* a callback that throws on node 2.
SampleFilters ==
    {[tag |-> "FilterNone", f |-> <<>>],
     [tag |-> "FilterNative", f |-> PointFilter(2, FILTER_SKIP)],
     [tag |-> "FilterJS", f |-> PointFilter(2, JSException)]}

\* Steps and detach() calls interleaved, every call recorded, on a cursor
\* rooted at the document's root that shows every kind of node.
InitDetach ==
    /\ Construct(SampleFilters)
    /\ root_node = 1
    /\ what_to_show = 4095
    /\ tracing = TRUE

NextDetach == NextNode \/ PreviousNode \/ Detach

SpecDetach == InitDetach /\ [][NextDetach]_vars

\* The recorded calls that are steps, in order.
StepsOf(tr) == SelectSeq(tr, LAMBDA e : e.op # "detach")

RECURSIVE Replay(_, _, _)
\* The steps of tr from the i-th on, run from the cursor c with no call
\* between them: whether each gives the recorded result, and the cursor they
\* end at.
Replay(tr, i, c) ==
    IF i > Len(tr) THEN [agrees |-> TRUE, cursor |-> c]
    ELSE LET r == TraverseLoop(IF tr[i].op = "prev_node" THEN "Previous"
                                                         ELSE "Next",
                               c[1], c[2], <<>>, <<>>)
             c2 == IF r.res = "Some"
                   THEN <<r.reference_node, r.pointer_before_reference_node>>
                   ELSE c
             rest == Replay(tr, i + 1, c2)
         IN  [agrees |-> rest.agrees /\ r.res = tr[i].res
                                     /\ r.node = tr[i].node,
              cursor |-> rest.cursor]

ReplayWithoutDetach == Replay(StepsOf(trace), 1, <<root_node, TRUE>>)

\* C11: detach() leaves the tree, root, mask, filter and cursor as they are,
\* and the steps of a run with detach() calls in it give the results and
\* the cursor that the same steps give without them.
C11_DetachIsNoOp ==
    /\ [][(last'.op = "detach" /\ Len(trace') > Len(trace)) =>
              UNCHANGED <<tree, config, cursor>>]_vars
    /\ [](/\ ReplayWithoutDetach.agrees
          /\ ReplayWithoutDetach.cursor = cursor)

\* detach() called between two steps that returned nodes, away from the
\* fresh cursor, a user filter installed.
C11_Witness ==
    /\ Len(trace) >= 4
    /\ trace[Len(trace) - 1].op = "detach"
    /\ trace[Len(trace) - 2].res = "Some"
    /\ trace[Len(trace) - 2].op = "next_node"
    /\ trace[Len(trace) - 2].node # root_node
    /\ trace[Len(trace)].op = "prev_node"
    /\ trace[Len(trace)].res = "Some"
    /\ filter.tag # "FilterNone"

\* Every method of NodeIteratorMethods, on a filter of each variant.
InitApi == Construct(SampleFilters) /\ tracing = FALSE

NextApi ==
    \/ NextNode
    \/ PreviousNode
    \/ Detach
    \/ Root
    \/ WhatToShow
    \/ GetFilter
    \/ GetReferenceNode
    \/ PointerBeforeReferenceNode

SpecApi == InitApi /\ [][NextApi]_vars

\* C12: root, mask and filter never change; only a step changes the cursor;
\* each read accessor leaves the cursor alone and returns the current value
\* of its field.
C12_OnlyStepsMutate ==
    /\ [][config' = config]_vars
    /\ [](/\ (last.op # "new" /\ ~CursorAsBefore) => last.op \in StepOps
          /\ last.op = "Root" => last.value = root_node
          /\ last.op = "WhatToShow" => last.value = what_to_show
          /\ last.op = "GetReferenceNode" => last.value = reference_node
          /\ last.op = "PointerBeforeReferenceNode" =>
                last.value = pointer_before_reference_node)

\* GetReferenceNode() after a step that moved the cursor off the root.
C12_Witness ==
    /\ last.op = "GetReferenceNode"
    /\ last.op0 = "next_node"
    /\ last.res0 = "Some"
    /\ reference_node # root_node
    /\ ~pointer_before_reference_node

\* C14: GetFilter() does not fault, whichever filter variant the cursor was
\* constructed with.
C14_GetFilterNeverFaults ==
    last.op = "GetFilter" => (~panicked /\ last.res # "Panic")

\* The tree mutated under the cursor.
InitMutate == Construct(Filters) /\ tracing = FALSE

NextMutate == NextNode \/ PreviousNode \/ RemoveSubtree

SpecMutate == InitMutate /\ [][NextMutate]_vars

\* C13: with the reference node (or a subtree holding it) removed from the
\* tree, every step still ends in Ok(None), Ok(Some(node)) or a filter
\* failure, never in a fault.
C13_RemovedReferenceTolerated ==
    /\ ~panicked
    /\ last.op \in StepOps => last.res \in {"None", "Some", "Err"}

\* A step taken right after the reference node itself was removed, the
\* cursor resting on a node that is not the root.
C13_Witness ==
    /\ last.op \in {"next_node", "prev_node"}
    /\ last.op0 = "remove"
    /\ last.ref0 # root_node
    /\ last.ref0 # 1
    /\ parent[last.ref0] = NoNode

\* Callbacks that re-enter the cursor on one node, then accept it, skip it
\* or throw.
ReentrantFilters ==
    {[tag |-> "FilterJS", f |-> PointFilter(t, v), at |-> t, reenter |-> o] :
        t \in Nodes, v \in {FILTER_ACCEPT, FILTER_SKIP, JSException},
        o \in {"Next", "Previous"}}

InitReentrant == Construct(ReentrantFilters) /\ tracing = FALSE

NextReentrant == ReentrantNextNode \/ ReentrantPreviousNode

SpecReentrant == InitReentrant /\ [][NextReentrant]_vars

\* C15: under a callback that re-enters the cursor, a step that ends in None
\* or in a filter failure leaves the cursor as it was when the step began,
\* and a step that ends in Some(x) leaves reference_node = x.
C15_ReentrantStepAtomic ==
    last.op \in StepOps =>
        /\ last.res \in {"None", "Err"} => CursorAsBefore
        /\ last.res = "Some" => reference_node = last.node

\* C16: a step ends with a result after classifying each node at most once,
\* so after at most as many loop turns as the tree has nodes.
C16_EachNodeClassifiedOnce ==
    last.op \in StepOps =>
        /\ last.res \in {"None", "Some", "Err", "Panic"}
        /\ Len(last.classified) <= Cardinality(Nodes)
        /\ \A i, j \in 1..Len(last.classified) :
              last.classified[i] = last.classified[j] => i = j

\* A step in which the mask and the user filter skip every remaining
\* candidate: it classifies several nodes and ends in None.
C16_Witness ==
    /\ last.op = "next_node"
    /\ last.res = "None"
    /\ Len(last.classified) >= 3
    /\ last.invoked # <<>>

\* The verdict on v: the mask, then the user filter.
Verdict(v) ==
    IF Hidden(v) THEN FILTER_SKIP
    ELSE IF filter.tag = "FilterNone" THEN FILTER_ACCEPT
    ELSE filter.f[v]

\* C18: a node whose verdict is not FILTER_ACCEPT is not returned and the
\* step goes on to the next candidate in its direction; in particular the
\* first child of a rejected node is the next node classified.
C18_NonAcceptIsSkip ==
    last.op \in StepOps =>
        LET c == last.classified
        IN  /\ \A i \in 1..(Len(c) - 1) :
                  /\ Verdict(c[i]) # FILTER_ACCEPT
                  /\ c[i + 1] = IF last.op = "prev_node"
                                THEN preceding(c[i]) ELSE following(c[i])
            /\ \A i \in 1..Len(c) :
                  (Verdict(c[i]) = 2 /\ last.op # "prev_node"
                      /\ children[c[i]] # <<>>) =>
                      (i < Len(c) /\ c[i + 1] = children[c[i]][1])
            /\ last.res = "Some" =>
                  (last.node = c[Len(c)] /\ Verdict(last.node) = FILTER_ACCEPT)
            /\ (last.res = "None" /\ c # <<>>) =>
                  Verdict(c[Len(c)]) \notin {FILTER_ACCEPT, JSException}

\* next_node() classifies a node the filter rejects and returns a child of
\* that node.
C18_Witness ==
    /\ last.op = "next_node"
    /\ last.res = "Some"
    /\ \E i \in 1..Len(last.classified) :
          /\ Verdict(last.classified[i]) = 2
          /\ parent[last.node] = last.classified[i]

\* User filters for walks back and forth: none, a native predicate that
\* skips one node, a callback that throws on node 2.
WalkFilters ==
    {[tag |-> "FilterNone", f |-> <<>>],
     [tag |-> "FilterJS", f |-> PointFilter(2, JSException)]}
    \cup {[tag |-> "FilterNative", f |-> PointFilter(t, FILTER_SKIP)] :
            t \in Nodes}

\* Walks of next_node() and prev_node() calls, every call recorded.
InitWalk == Construct(WalkFilters) /\ tracing = TRUE

NextWalk == NextNode \/ PreviousNode

SpecWalk == InitWalk /\ [][NextWalk]_vars

RECURSIVE Preorder(_), PreorderAll(_)
\* The subtree of n in depth-first pre-order.
Preorder(n) == <<n>> \o PreorderAll(children[n])
PreorderAll(ns) ==
    IF ns = <<>> THEN <<>> ELSE Preorder(Head(ns)) \o PreorderAll(Tail(ns))

\* The nodes of the root's subtree whose verdict is FILTER_ACCEPT, in
\* document order.
Accepted ==
    SelectSeq(Preorder(root_node), LAMBDA v : Verdict(v) = FILTER_ACCEPT)

NonFailing == \A v \in Nodes : ~Throws(v)

OnlyNextCalls == \A i \in 1..Len(trace) : trace[i].op = "next_node"

\* C17: when the root has no siblings and the filter does not fail, the
\* next_node() calls from the fresh cursor return the accepted nodes of the
\* root's subtree in pre-order, each once, and None from then on.
C17_ForwardIsFilteredPreorder ==
    (/\ next_sibling(root_node) = NoNode
     /\ prev_sibling(root_node) = NoNode
     /\ NonFailing
     /\ OnlyNextCalls) =>
        \A i \in 1..Len(trace) :
            IF i <= Len(Accepted)
            THEN trace[i].res = "Some" /\ trace[i].node = Accepted[i]
            ELSE trace[i].res = "None"

\* The whole enumeration and the None that ends it, under a root that has
\* a parent, with a node of the subtree left out.
C17_Witness ==
    /\ OnlyNextCalls
    /\ NonFailing
    /\ root_node # 1
    /\ next_sibling(root_node) = NoNode
    /\ prev_sibling(root_node) = NoNode
    /\ Len(Accepted) >= 2
    /\ Len(Accepted) < Len(Preorder(root_node))
    /\ Len(trace) = Len(Accepted) + 1

\* The calls i+1..i+k are next_node() that returned nodes and the k calls
\* after them are prev_node().
ForwardRunThenBack(i, k) ==
    /\ i + 2 * k <= Len(trace)
    /\ \A j \in 1..k :
          /\ trace[i + j].op = "next_node"
          /\ trace[i + j].res = "Some"
          /\ trace[i + k + j].op = "prev_node"

\* C19: with a filter that does not fail, k prev_node() calls after k
\* next_node() calls that returned n1..nk return nk..n1; prev_node() right
\* after a next_node() that returned x returns x and leaves reference_node
\* on x, and so does next_node() right after such a prev_node().
C19_Reversal ==
    NonFailing =>
        /\ \A i \in 0..Len(trace), k \in 1..Len(trace) :
              ForwardRunThenBack(i, k) =>
                  \A j \in 1..k :
                      /\ trace[i + k + j].res = "Some"
                      /\ trace[i + k + j].node = trace[i + k + 1 - j].node
        /\ \A i \in 1..(Len(trace) - 1) :
              (trace[i].res = "Some" /\ trace[i].op # trace[i + 1].op) =>
                  /\ trace[i + 1].res = "Some"
                  /\ trace[i + 1].node = trace[i].node
                  /\ i + 1 = Len(trace) => reference_node = trace[i].node

\* Two next_node() calls away from the fresh cursor, a node skipped between
\* the nodes they return, and two prev_node() calls after them.
C19_Witness ==
    /\ NonFailing
    /\ Len(trace) >= 5
    /\ ForwardRunThenBack(1, 2)
    /\ following(trace[2].node) # trace[3].node

\* The calls that returned a node.
ReturningCalls == {i \in 1..Len(trace) : trace[i].res = "Some"}

\* C20: pointer_before_reference_node is true when no step has returned a
\* node yet (and reference_node is still the root) or the last step that
\* returned one was prev_node(), and false when it was next_node().
C20_FlagTellsLastDirection ==
    IF ReturningCalls = {}
    THEN pointer_before_reference_node /\ reference_node = root_node
    ELSE LET m == CHOOSE i \in ReturningCalls :
                      \A j \in ReturningCalls : j <= i
         IN  pointer_before_reference_node = (trace[m].op = "prev_node")

\* A step that returned None after a prev_node() that returned a node,
\* itself after a next_node() that returned one.
C20_Witness ==
    /\ Len(trace) >= 3
    /\ trace[Len(trace)].res = "None"
    /\ trace[Len(trace) - 1].res = "Some"
    /\ trace[Len(trace) - 1].op = "prev_node"
    /\ \E i \in 1..(Len(trace) - 2) :
          trace[i].op = "next_node" /\ trace[i].res = "Some"

====
